---- MODULE Spec2Model ----
(***************************************************************************)
(* A model of the repository-ingestion service: the Express request        *)
(* handlers of server.ts and the helpers of utils.ts (URL recognition and  *)
(* normalisation, workspace allocation and sweeping, archive download and  *)
(* extraction, ignore filtering).                                          *)
(*                                                                         *)
(* Strings are modelled as sequences of tokens.  A token is a piece of     *)
(* text that contains no '/' and no ':' ("github.com", "tree", ".git",     *)
(* "yarn", ".lock"), or one of the separators "/" and ":", or one of the   *)
(* scheme prefixes "https://" and "git@".  The regular expressions of the  *)
(* source are evaluated on these token sequences.                          *)
(***************************************************************************)
EXTENDS Integers, Sequences, FiniteSets, TLC

VARIABLES
  urlIn,     \* the raw url handed to isGitUrl / convertUrlToGitUrl
  urlOut,    \* the value convertUrlToGitUrl returned, or NoResult
  gitignore, \* the lines of the workspace's .gitignore (<<>> when there is none)
  additional,\* the request's ignorePatterns
  treeOut,   \* the paths generateTreeStructure listed, or NotRun
  contentOut,\* the paths extractRepositoryContent put into content, or NotRun
  req,       \* each request: where its handler stands, its tempDir, its response
  dirs,      \* os.tmpdir(): what each repogist-<hex> directory holds ({} = absent)
  zips,      \* os.tmpdir(): the repo-<hex>.zip files that exist
  stale,     \* os.tmpdir(): a repogist- directory older than 24 hours exists
  crashed,   \* the process was ended by an uncaught exception
  clIn,      \* one cloneRepository call: what the network and the disk give it
  cl,        \* one cloneRepository call: where it stands and what it has written
  ex         \* one extractRepositoryContent call: the workspace it meets, its outcome

urlVars == <<urlIn, urlOut>>
ignoreVars == <<gitignore, additional, treeOut, contentOut>>
serverVars == <<req, dirs, zips, stale, crashed>>
cloneVars == <<clIn, cl>>
extractVars == <<ex>>
vars == <<urlIn, urlOut, gitignore, additional, treeOut, contentOut,
          req, dirs, zips, stale, crashed, clIn, cl, ex>>

NoResult == [none |-> TRUE]
NotRun == [ran |-> FALSE, paths |-> {}]

(***************************************************************************)
(* Bounds                                                                  *)
(***************************************************************************)
\* how many ".git" suffixes a repository segment of a generated url carries
MaxGitSuffix == 2
\* how many lines the .gitignore holds, and how many patterns a request passes
MaxRules == 2
\* how many requests are handled
NumReqs == 2
\* how many values crypto.randomBytes(6) can take
NumNames == 2
\* how many chunks a response body has
MaxChunks == 2

(***************************************************************************)
(* Regular-expression helpers                                              *)
(***************************************************************************)
\* index of the first occurrence of token c in s at or after i, Len(s)+1 if none:
\* where a greedy [^c]+ that starts at i stops
NextTok(s, i, c) ==
  LET S == {j \in i..Len(s) : s[j] = c}
  IN  IF S = {} THEN Len(s) + 1 ELSE CHOOSE j \in S : \A k \in S : j <= k

GithubTree == <<"/", "tree", "/">>
GitlabTree == <<"/", "-", "/", "tree", "/">>

\* ^https:\/\/HOST\/([^/]+)\/([^/]+)(TREE([^/]+))?   (not anchored at the end)
\* end is the index one past the match
WebMatch(u, host, tree) ==
  LET n  == Len(u)
      o1 == 4
      o2 == NextTok(u, o1, "/")
      r1 == o2 + 1
      r2 == NextTok(u, r1, "/")
      b1 == r2 + Len(tree)
      b2 == NextTok(u, b1, "/")
      head == /\ n >= 3
              /\ u[1] = "https://" /\ u[2] = host /\ u[3] = "/"
              /\ o2 > o1 /\ o2 <= n
              /\ r2 > r1
      hasTree == /\ head
                 /\ b1 - 1 <= n
                 /\ SubSeq(u, r2, b1 - 1) = tree
                 /\ b2 > b1
  IN  [ok     |-> head,
       owner  |-> IF head THEN SubSeq(u, o1, o2 - 1) ELSE <<>>,
       repo   |-> IF head THEN SubSeq(u, r1, r2 - 1) ELSE <<>>,
       branch |-> IF hasTree THEN SubSeq(u, b1, b2 - 1) ELSE <<>>,
       end    |-> IF hasTree THEN b2 ELSE IF head THEN r2 ELSE 0]

\* ^https:\/\/HOST\/([^/]+)\/([^/]+)$
RepoMatch(u, host) ==
  LET m == WebMatch(u, host, <<>>)
  IN  [m EXCEPT !.ok = m.ok /\ m.end = Len(u) + 1, !.branch = <<>>]

\* a normaliser that forgets to strip the repository segment's .git
StripGit_Keep(repo) == repo

\* repo.replace(/\.git$/, '')
StripGit(repo) ==
  IF Len(repo) > 0 /\ repo[Len(repo)] = ".git"
  THEN SubSeq(repo, 1, Len(repo) - 1)
  ELSE repo

\* (match = url.match(webPattern)) || (match = url.match(repoPattern))
EitherMatch(u, host, tree) ==
  IF WebMatch(u, host, tree).ok THEN WebMatch(u, host, tree) ELSE RepoMatch(u, host)

\* the object literal { url: `https://HOST/${owner}/${cleanRepo}.git`, ...(branch && { branch }) }
GitInfo(host, m) ==
  [url       |-> <<"https://", host, "/">> \o m.owner \o <<"/">>
                   \o StripGit(m.repo) \o <<".git">>,
   hasBranch |-> m.branch # <<>>,
   branch    |-> m.branch]

convertUrlToGitUrl(u) ==
  LET gh == EitherMatch(u, "github.com", GithubTree)
      gl == EitherMatch(u, "gitlab.com", GitlabTree)
  IN  IF gh.ok THEN GitInfo("github.com", gh)
      ELSE IF gl.ok THEN GitInfo("gitlab.com", gl)
      ELSE [url |-> u, hasBranch |-> FALSE, branch |-> <<>>]

\* /^git@[^:]+:.+\.git$/
SshPattern(u) ==
  LET n == Len(u)
      c == NextTok(u, 2, ":")
  IN  /\ n >= 1 /\ u[1] = "git@"
      /\ c > 2 /\ c <= n
      /\ n >= c + 2 /\ u[n] = ".git"

\* /^https:\/\/[^/]+\/.+\.git$/
DirectPattern(u) ==
  LET n == Len(u)
      s == NextTok(u, 2, "/")
  IN  /\ n >= 1 /\ u[1] = "https://"
      /\ s > 2 /\ s <= n
      /\ n >= s + 2 /\ u[n] = ".git"

\* /^https:\/\/HOST\/[^/]+\/[^/]+(TREE[^/]+)?$/
BrowsePattern(u, host, tree) ==
  LET m == WebMatch(u, host, tree)
  IN  m.ok /\ m.end = Len(u) + 1

isGitUrl(u) ==
  \/ SshPattern(u)
  \/ DirectPattern(u)
  \/ BrowsePattern(u, "github.com", GithubTree)
  \/ BrowsePattern(u, "gitlab.com", GitlabTree)

(***************************************************************************)
(* The urls the normaliser is run on                                       *)
(***************************************************************************)
Hosts == {"github.com", "gitlab.com", "example.org"}

GitSuffix(k) == [i \in 1..k |-> ".git"]

\* what follows the repository segment
Tails ==
  { <<>>,
    <<"/", "tree", "/", "main">>,
    <<"/", "tree", "/", "main", ".git">>,
    <<"/", "-", "/", "tree", "/", "main">>,
    <<"/", "tree", "/", "feature", "/", "x">>,
    <<"/", "blob", "/", "main">>,
    <<"/">> }

\* a url in its parts: scheme, host, owner, repository name, the number of ".git"
\* suffixes on the repository segment, and the tail
UrlParts ==
  [scheme : {"https://", "git@"}, host : Hosts, owner : {"acme"},
   repo : {"widgets"}, gits : 0..MaxGitSuffix, tail : Tails]

\* the url as the caller writes it
Render(p) ==
  <<p.scheme, p.host, IF p.scheme = "git@" THEN ":" ELSE "/", p.owner, "/", p.repo>>
    \o GitSuffix(p.gits) \o p.tail

\* the tree marker of a hosting provider
TreeOf(host) == IF host = "github.com" THEN GithubTree ELSE GitlabTree

\* the recognized browse forms: https://github.com/<owner>/<repo>[/tree/<branch>]
\* and https://gitlab.com/<owner>/<repo>[/-/tree/<branch>]
IsBrowse(p) ==
  /\ p.scheme = "https://"
  /\ p.host \in {"github.com", "gitlab.com"}
  /\ \/ p.tail = <<>>
     \/ /\ Len(p.tail) > Len(TreeOf(p.host))
        /\ SubSeq(p.tail, 1, Len(TreeOf(p.host))) = TreeOf(p.host)
        /\ \A i \in (Len(TreeOf(p.host)) + 1)..Len(p.tail) : p.tail[i] # "/"

BranchOf(p) == SubSeq(p.tail, Len(TreeOf(p.host)) + 1, Len(p.tail))

(***************************************************************************)
(* The server: the timeout middleware and the /ingest handler              *)
(*                                                                         *)
(* Sizes are counted in MiB.  A handler runs from one await to the next in *)
(* one step.  A sweep (cleanupTempDirectories) is one step.                *)
(***************************************************************************)
Reqs == 1..NumReqs
Names == 1..NumNames

\* 1024 * 1024 * 1024 bytes
MIN_REQUIRED_SPACE == 1024
MAX_DOWNLOAD_SIZE == 1024

\* what df reports as available, and what a content-length header declares
Avails == {0, 2047, 2048, 4096}
Lens == {0, 1, 1024, 1025, 2048}

\* availableSpace >= requiredSpace * 2
hasEnoughDiskSpace(requiredSpace, availableSpace) ==
  availableSpace >= requiredSpace * 2

\* the urls a request body carries; <<>> is a missing url
NoUrl == <<>>
ServerUrls ==
  { NoUrl,
    <<"https://", "github.com", "/", "acme", "/", "widgets", "/", "blob", "/", "main">>,
    <<"https://", "github.com", "/", "acme", "/", "widgets">>,
    <<"https://", "gitlab.com", "/", "acme", "/", "widgets", "/", "-", "/", "tree", "/", "main">>,
    <<"git@", "github.com", ":", "acme", "/", "widgets", ".git">> }

\* /^https:\/\/github\.com\/([^/]+)\/([^/]+)(\.git)?$/ or the same for gitlab.com
ProviderMatch(u) == RepoMatch(u, "github.com").ok \/ RepoMatch(u, "gitlab.com").ok

NoDir == {}
Idle == [pc |-> "idle", url |-> NoUrl, ws |-> 0, zip |-> 0,
         calls |-> 0, sent |-> 0, timer |-> "unset", io |-> FALSE]

\* res.status(code).json(...) on request record q: the call is counted; the
\* response goes out unless one already went out, in which case the call throws
Respond(q, code) ==
  [q EXCEPT !.calls = @ + 1, !.sent = IF @ = 0 THEN code ELSE @]

\* cleanupTempDirectories(): every repogist- and repo- entry of os.tmpdir() is removed
Sweep ==
  /\ dirs' = [n \in Names |-> NoDir]
  /\ zips' = {}
  /\ stale' = FALSE
  /\ UNCHANGED <<urlVars, ignoreVars, cloneVars, extractVars>>

\* the handler's catch block, entered with request record q: the sweep, then
\* res.status(500).json(...)
Catch(r, q) ==
  /\ Sweep
  /\ req' = [req EXCEPT ![r] = [Respond(q, 500) EXCEPT !.pc = "done", !.io = TRUE]]
  /\ UNCHANGED crashed

\* a handler that allocates the workspace before it looks at the url
Ingest_AllocateFirst(r, u) ==
  /\ ~crashed
  /\ UNCHANGED <<urlVars, ignoreVars, cloneVars, extractVars>>
  /\ req[r].pc = "idle"
  /\ \E n \in Names :
       LET q == [req[r] EXCEPT !.url = u, !.timer = "armed", !.io = TRUE, !.ws = n]
       IN  /\ dirs' = [dirs EXCEPT ![n] = @ \cup {"dir"}]
           /\ stale' = FALSE
           /\ req' = [req EXCEPT ![r] =
                 IF u = NoUrl \/ ~isGitUrl(u)
                 THEN [Respond(q, 400) EXCEPT !.pc = "done", !.timer = "cleared"]
                 ELSE [q EXCEPT !.pc = "resolve"]]
           /\ UNCHANGED <<zips, crashed>>

\* a request arrives: the timeout middleware arms the timer, then the handler runs
\* to its first await: the url checks, convertUrlToGitUrl, createTempDir.
\* An answer written in the tick that armed the 30 s timer (the 400s, the 500 for
\* a createTempDir that throws) has its 'finish' clear the timer before it can fire.
Ingest(r, u) ==
  /\ ~crashed
  /\ UNCHANGED <<urlVars, ignoreVars, cloneVars, extractVars>>
  /\ req[r].pc = "idle"
  /\ LET q == [req[r] EXCEPT !.url = u, !.timer = "armed"]
     IN  IF u = NoUrl \/ ~isGitUrl(u)
         THEN /\ req' = [req EXCEPT ![r] =
                    [Respond(q, 400) EXCEPT !.pc = "done", !.timer = "cleared"]]
              /\ UNCHANGED <<dirs, zips, stale, crashed>>
         ELSE \E availableSpace \in Avails :
                IF ~hasEnoughDiskSpace(MIN_REQUIRED_SPACE, availableSpace)
                THEN Catch(r, [q EXCEPT !.timer = "cleared"])
                ELSE \E n \in Names :
                       /\ dirs' = [dirs EXCEPT ![n] = @ \cup {"dir"}]
                       /\ stale' = FALSE
                       /\ req' = [req EXCEPT ![r] =
                             [q EXCEPT !.ws = n, !.pc = "resolve", !.io = TRUE]]
                       /\ UNCHANGED <<zips, crashed>>

\* cloneRepository: getZipDownloadUrl (with getDefaultBranch when the url names no
\* branch), then the name of the archive file
Resolve(r) ==
  /\ ~crashed
  /\ UNCHANGED <<urlVars, ignoreVars, cloneVars, extractVars>>
  /\ req[r].pc = "resolve"
  /\ LET gitInfo == convertUrlToGitUrl(req[r].url)
     IN  \E lookupOk \in BOOLEAN, z \in Names :
           IF \/ ~ProviderMatch(gitInfo.url)
              \/ ~gitInfo.hasBranch /\ ~lookupOk
           THEN Catch(r, req[r])
           ELSE /\ req' = [req EXCEPT ![r] = [@ EXCEPT !.zip = z, !.pc = "fetch"]]
                /\ UNCHANGED <<dirs, zips, stale, crashed>>

\* a downloadFile without the size cap
DownloadStart_NoCap(ok, contentLength, availableSpace, hasBody) ==
  IF ~ok THEN "httpError"
  ELSE IF ~hasEnoughDiskSpace(contentLength, availableSpace) THEN "noSpace"
  ELSE IF ~hasBody THEN "noReader"
  ELSE "streaming"

\* what downloadFile does with the response before it streams: the status, the
\* declared length against the cap and the disk, the reader
DownloadStart(ok, contentLength, availableSpace, hasBody) ==
  IF ~ok THEN "httpError"
  ELSE IF contentLength > MAX_DOWNLOAD_SIZE THEN "tooLarge"
  ELSE IF ~hasEnoughDiskSpace(contentLength, availableSpace) THEN "noSpace"
  ELSE IF ~hasBody THEN "noReader"
  ELSE "streaming"

\* downloadFile: the response to fetch(zipUrl) arrives
Fetch(r) ==
  /\ ~crashed
  /\ UNCHANGED <<urlVars, ignoreVars, cloneVars, extractVars>>
  /\ req[r].pc = "fetch"
  /\ \E ok \in BOOLEAN, contentLength \in Lens, availableSpace \in Avails :
       IF DownloadStart(ok, contentLength, availableSpace, TRUE) # "streaming"
       THEN Catch(r, req[r])
       ELSE /\ zips' = zips \cup {req[r].zip}
            /\ req' = [req EXCEPT ![r] = [@ EXCEPT !.pc = "download"]]
            /\ UNCHANGED <<dirs, stale, crashed>>

\* downloadFile: the body ends or a read fails; on the end cloneRepository makes
\* the scratch directory and opens the archive.  An archive that is gone makes
\* the read stream emit 'error' with no listener: an uncaught exception.
Download(r) ==
  /\ ~crashed
  /\ UNCHANGED <<urlVars, ignoreVars, cloneVars, extractVars>>
  /\ req[r].pc = "download"
  /\ \E readFails \in BOOLEAN :
       IF readFails
       THEN Catch(r, req[r])
       ELSE /\ dirs' = [dirs EXCEPT ![req[r].ws] = @ \cup {"dir", "extracted"}]
            /\ req' = [req EXCEPT ![r] = [@ EXCEPT !.pc = "extract"]]
            /\ crashed' = (req[r].zip \notin zips)
            /\ UNCHANGED <<zips, stale>>

\* cloneRepository: the extractor emits 'error' (the promise rejects) or 'close'.
\* The 'close' listener lists the scratch directory, moves the files up, removes
\* the scratch directory and unlinks the archive; what it throws is uncaught.
Extract(r) ==
  /\ ~crashed
  /\ UNCHANGED <<urlVars, ignoreVars, cloneVars, extractVars>>
  /\ req[r].pc = "extract"
  /\ \E extractFails \in BOOLEAN, emptyArchive \in BOOLEAN :
       IF extractFails
       THEN Catch(r, req[r])
       ELSE IF "extracted" \notin dirs[req[r].ws] \/ emptyArchive
       THEN /\ crashed' = TRUE
            /\ UNCHANGED <<req, dirs, zips, stale>>
       ELSE /\ dirs' = [dirs EXCEPT ![req[r].ws] = (@ \ {"extracted"}) \cup {"files"}]
            /\ IF req[r].zip \in zips
               THEN /\ zips' = zips \ {req[r].zip}
                    /\ req' = [req EXCEPT ![r] = [@ EXCEPT !.pc = "content"]]
                    /\ UNCHANGED crashed
               ELSE /\ crashed' = TRUE
                    /\ UNCHANGED <<req, zips>>
            /\ UNCHANGED stale

\* extractRepositoryContent, res.json(...), removeTempDir(tempDir)
Content(r) ==
  /\ ~crashed
  /\ UNCHANGED <<urlVars, ignoreVars, cloneVars, extractVars>>
  /\ req[r].pc = "content"
  /\ IF "dir" \notin dirs[req[r].ws]
     THEN Catch(r, req[r])
     ELSE IF req[r].sent # 0
     THEN Catch(r, Respond(req[r], 200))
     ELSE /\ req' = [req EXCEPT ![r] = [Respond(@, 200) EXCEPT !.pc = "done"]]
          /\ dirs' = [dirs EXCEPT ![req[r].ws] = NoDir]
          /\ UNCHANGED <<zips, stale, crashed>>

\* the 30 s timer of the timeout middleware fires: the sweep, then
\* res.status(408).json(...), which throws out of the timer callback when a
\* response already went out
Timer(r) ==
  /\ ~crashed
  /\ req[r].timer = "armed"
  /\ Sweep
  /\ req' = [req EXCEPT ![r] = [Respond(@, 408) EXCEPT !.timer = "fired", !.io = TRUE]]
  /\ crashed' = (req[r].sent # 0)

\* res.on('finish'): clearTimeout(timeoutId)
Finish(r) ==
  /\ ~crashed
  /\ UNCHANGED <<urlVars, ignoreVars, cloneVars, extractVars>>
  /\ req[r].timer = "armed"
  /\ req[r].sent # 0
  /\ req' = [req EXCEPT ![r] = [@ EXCEPT !.timer = "cleared"]]
  /\ UNCHANGED <<dirs, zips, stale, crashed>>

\* the state of the server when no request has arrived
ServerIdle ==
  /\ req = [r \in Reqs |-> Idle]
  /\ dirs = [n \in Names |-> NoDir]
  /\ zips = {}
  /\ stale = FALSE
  /\ crashed = FALSE

\* no cloneRepository call is followed on its own
CloneIdle ==
  /\ clIn = [none |-> TRUE]
  /\ cl = [pc |-> "none"]

\* no extractRepositoryContent call is followed on its own
ExtractIdle == ex = [pc |-> "none"]

Init ==
  /\ req = [r \in Reqs |-> Idle]
  /\ dirs = [n \in Names |-> NoDir]
  /\ zips = {}
  /\ stale \in BOOLEAN
  /\ crashed = FALSE
  /\ CloneIdle
  /\ ExtractIdle
  /\ urlIn = [none |-> TRUE] /\ urlOut = NoResult
  /\ gitignore = <<>> /\ additional = <<>>
  /\ treeOut = NotRun /\ contentOut = NotRun

Next ==
  \/ \E r \in Reqs, u \in ServerUrls : Ingest(r, u)
  \/ \E r \in Reqs : Resolve(r)
  \/ \E r \in Reqs : Fetch(r)
  \/ \E r \in Reqs : Download(r)
  \/ \E r \in Reqs : Extract(r)
  \/ \E r \in Reqs : Content(r)
  \/ \E r \in Reqs : Timer(r)
  \/ \E r \in Reqs : Finish(r)

Spec == Init /\ [][Next]_vars

\* C1 (as claimed): a request whose timeout rejection has been sent is in a
\* terminal state: the pipeline's later completion, success or failure, writes
\* nothing to its response, so no handler calls res.json on it again.
C1_TimedOutIsTerminal ==
  [][\A r \in Reqs :
       (req[r].timer = "fired" /\ req[r].sent = 408) => req'[r].calls = req[r].calls]_vars

\* request r has been answered and nothing more runs for it: its handler has
\* returned, or the process has ended
Ended(r) ==
  /\ req[r].sent # 0
  /\ req[r].pc = "done" \/ crashed

\* no other request was given the directory name of request r
SoleOwner(r) ==
  \A q \in Reqs \ {r} : req[q].ws # req[r].ws

\* C2 (as claimed): once the handling of a request that allocated a workspace has
\* ended, on whatever path (completion, a thrown error, the timeout), its
\* workspace directory no longer exists.
C2_WorkspaceRemoved ==
  \A r \in Reqs :
    (req[r].ws # 0 /\ Ended(r) /\ SoleOwner(r)) => dirs[req[r].ws] = NoDir

\* request q is in flight and holds a workspace
InFlight(q) == req[q].pc \notin {"idle", "done"} /\ req[q].ws # 0

\* C3 (as claimed): a step taken on behalf of one request leaves the workspace
\* directory and the archive file of every other in-flight request as they were.
C3_ExclusiveWorkspace ==
  [][\A q \in Reqs :
       (InFlight(q) /\ req'[q] = req[q]) =>
         /\ dirs'[req[q].ws] = dirs[req[q].ws]
         /\ req[q].zip \in zips => req[q].zip \in zips']_vars

\* C4: a request whose url isGitUrl rejects is answered 400 by the one response
\* written for it, with no workspace, no archive name, and no sweep, disk-space
\* check or network request made on its behalf.
C4_InvalidRejectedFirst ==
  \A r \in Reqs :
    (req[r].pc # "idle" /\ ~isGitUrl(req[r].url)) =>
      /\ req[r].pc = "done"
      /\ req[r].sent = 400 /\ req[r].calls = 1
      /\ ~req[r].io
      /\ req[r].ws = 0 /\ req[r].zip = 0

\* a request with a url that is present and not recognized has been answered
\* while another request holds a workspace
C4_Witness ==
  \E r, q \in Reqs :
    /\ req[r].pc = "done" /\ req[r].url # NoUrl /\ ~isGitUrl(req[r].url)
    /\ InFlight(q) /\ "dir" \in dirs[req[q].ws]

\* C5 (as claimed): the directory createTempDir returns did not exist before the
\* call, so no two allocations return the same directory.
C5_FreshDirectory ==
  [][\A r \in Reqs :
       (req[r].ws = 0 /\ req'[r].ws # 0) => dirs[req'[r].ws] = NoDir]_vars


(***************************************************************************)
(* One cloneRepository call, with downloadFile chunk by chunk              *)
(***************************************************************************)
\* the urls the README lists under "Supported URL Formats"
SupportedUrls ==
  { <<"https://", "github.com", "/", "username", "/", "repo">>,
    <<"https://", "github.com", "/", "username", "/", "repo", "/", "tree", "/", "branch">>,
    <<"https://", "gitlab.com", "/", "username", "/", "repo">>,
    <<"https://", "gitlab.com", "/", "username", "/", "repo", "/", "-", "/", "tree", "/", "branch">>,
    <<"git@", "github.com", ":", "username", "/", "repo", ".git">>,
    <<"https://", "github.com", "/", "username", "/", "repo", ".git">> }

\* the messages of the errors cloneRepository rethrows
NoError == "none"
Unsupported == "Unsupported repository URL format"
LookupFailed == "Failed to get repository info"

\* the gitInfo values the handler passes: convertUrlToGitUrl of a url that passed
\* isGitUrl
GitInfos ==
  {convertUrlToGitUrl(u) : u \in {v \in ServerUrls \cup SupportedUrls : isGitUrl(v)}}

\* what the call meets: the provider's answer to the branch lookup, the status,
\* content-length and body of the archive response (its chunks, and the read that
\* rejects, 0 for none), the disk, and the archive's contents
CloneInputs ==
  [gitInfo : GitInfos, lookupOk : BOOLEAN,
   ok : BOOLEAN, contentLength : Lens, availableSpace : Avails, hasBody : BOOLEAN,
   chunks : 0..MaxChunks, failAt : 0..(MaxChunks + 1),
   archive : {"good", "corrupt", "empty"}]

CloneStart ==
  [pc |-> "start", zipExists |-> FALSE, written |-> 0, onDisk |-> 0,
   extractDir |-> FALSE, files |-> FALSE, error |-> NoError,
   read |-> 0, eof |-> FALSE]

InitClone ==
  /\ clIn \in CloneInputs
  /\ cl = CloneStart
  /\ ServerIdle
  /\ ExtractIdle
  /\ urlIn = [none |-> TRUE] /\ urlOut = NoResult
  /\ gitignore = <<>> /\ additional = <<>>
  /\ treeOut = NotRun /\ contentOut = NotRun

\* getZipDownloadUrl(url, branch), with getDefaultBranch when there is no branch
CloneResolve ==
  /\ cl.pc = "start"
  /\ cl' = IF ~ProviderMatch(clIn.gitInfo.url)
           THEN [cl EXCEPT !.pc = "thrown", !.error = Unsupported]
           ELSE IF ~clIn.gitInfo.hasBranch /\ ~clIn.lookupOk
           THEN [cl EXCEPT !.pc = "thrown", !.error = LookupFailed]
           ELSE [cl EXCEPT !.pc = "fetch"]
  /\ UNCHANGED <<clIn, urlVars, ignoreVars, serverVars, extractVars>>

\* downloadFile up to the read loop: the checks, then createWriteStream(targetPath),
\* then the reader
CloneFetch ==
  /\ cl.pc = "fetch"
  /\ LET start == DownloadStart(clIn.ok, clIn.contentLength, clIn.availableSpace,
                                clIn.hasBody)
     IN  cl' = [cl EXCEPT !.zipExists = start \in {"noReader", "streaming"},
                          !.pc = IF start = "streaming" THEN "stream" ELSE "thrown",
                          !.error = IF start = "streaming" THEN NoError ELSE start]
  /\ UNCHANGED <<clIn, urlVars, ignoreVars, serverVars, extractVars>>

\* reader.read() gives a chunk: fileStream.write(value)
CloneRead ==
  /\ cl.pc = "stream"
  /\ cl.written < clIn.chunks
  /\ clIn.failAt # cl.written + 1
  /\ cl' = [cl EXCEPT !.written = @ + 1]
  /\ UNCHANGED <<clIn, urlVars, ignoreVars, serverVars, extractVars>>

\* reader.read() rejects: the finally releases the lock, the error leaves
\* downloadFile and is rethrown by cloneRepository's catch
CloneReadFail ==
  /\ cl.pc = "stream"
  /\ cl.written <= clIn.chunks
  /\ clIn.failAt = cl.written + 1
  /\ cl' = [cl EXCEPT !.pc = "thrown", !.error = "readFailed"]
  /\ UNCHANGED <<clIn, urlVars, ignoreVars, serverVars, extractVars>>

\* reader.read() gives done: fileStream.end(), downloadFile returns without
\* waiting for the write stream's 'finish'; cloneRepository makes the scratch
\* directory and pipes fs.createReadStream(zipPath) into Extract
CloneReadDone ==
  /\ cl.pc = "stream"
  /\ cl.written = clIn.chunks
  /\ clIn.failAt # cl.written + 1
  /\ cl' = [cl EXCEPT !.pc = "extract", !.extractDir = TRUE]
  /\ UNCHANGED <<clIn, urlVars, ignoreVars, serverVars, extractVars>>

\* the write stream puts a chunk it was given into the file
Flush ==
  /\ cl.pc \in {"stream", "extract"}
  /\ cl.onDisk < cl.written
  /\ cl' = [cl EXCEPT !.onDisk = @ + 1]
  /\ UNCHANGED <<clIn, urlVars, ignoreVars, serverVars, extractVars>>

\* the read stream of the pipe reads the archive file: it takes the chunks that
\* are in the file and it has not read, and ends when it finds none
ExtractRead ==
  /\ cl.pc = "extract"
  /\ ~cl.eof
  /\ cl' = IF cl.read < cl.onDisk
           THEN [cl EXCEPT !.read = cl.onDisk]
           ELSE [cl EXCEPT !.eof = TRUE]
  /\ UNCHANGED <<clIn, urlVars, ignoreVars, serverVars, extractVars>>

\* the read stream ended before it had read every chunk of the body
Truncated == cl.eof /\ cl.read < clIn.chunks

\* Extract emits 'close' after its input ended: the listener moves the extracted
\* folder's files up, removes the scratch directory, unlinks the archive and
\* resolves. When nothing was extracted (an archive with no top-level folder, no
\* chunk read) path.join throws in the listener: nothing settles.
CloneExtractClose ==
  /\ cl.pc = "extract"
  /\ cl.eof
  /\ clIn.archive # "corrupt"
  /\ cl' = IF clIn.archive = "empty" \/ cl.read = 0
           THEN [cl EXCEPT !.pc = "aborted"]
           ELSE [cl EXCEPT !.pc = "returned", !.files = TRUE,
                           !.extractDir = FALSE, !.zipExists = FALSE]
  /\ UNCHANGED <<clIn, urlVars, ignoreVars, serverVars, extractVars>>

\* Extract emits 'error', on a corrupt archive or on one that ended early:
\* reject, and cloneRepository's catch rethrows
CloneExtractError ==
  /\ cl.pc = "extract"
  /\ clIn.archive = "corrupt" \/ Truncated
  /\ cl' = [cl EXCEPT !.pc = "thrown", !.error = "extractFailed"]
  /\ UNCHANGED <<clIn, urlVars, ignoreVars, serverVars, extractVars>>

NextClone ==
  \/ CloneResolve
  \/ CloneFetch
  \/ CloneRead
  \/ CloneReadFail
  \/ CloneReadDone
  \/ Flush
  \/ ExtractRead
  \/ CloneExtractClose
  \/ CloneExtractError

SpecClone == InitClone /\ [][NextClone]_vars

\* the declared length is over the cap, or the disk guard refuses it
Refused ==
  \/ clIn.contentLength > MAX_DOWNLOAD_SIZE
  \/ ~hasEnoughDiskSpace(clIn.contentLength, clIn.availableSpace)

\* C6: when the declared content length exceeds the cap or the disk guard reports
\* too little space for it, the archive file is never created and no chunk is
\* written: the download has not started or has failed.
C6_ChecksBeforeWrite ==
  Refused =>
    /\ ~cl.zipExists
    /\ cl.written = 0 /\ cl.onDisk = 0
    /\ cl.pc \in {"start", "fetch", "thrown"}

\* a response that declares 2 GiB, with the disk space for it, has made the
\* download fail
C6_Witness ==
  /\ clIn.ok /\ clIn.hasBody /\ clIn.chunks > 0
  /\ clIn.contentLength = 2048 /\ clIn.availableSpace = 4096
  /\ cl.pc = "thrown"

\* C7 (as claimed): once cloneRepository has returned or thrown, the scratch
\* directory and the archive file do not exist.
C7_ScratchAndArchiveRemoved ==
  cl.pc \in {"returned", "thrown"} => ~cl.extractDir /\ ~cl.zipExists

\* C13 (as claimed): when the extractor begins reading the archive file, every
\* chunk of the response body has been written to the file: no write of the
\* download is still pending.
C13_ExtractionAfterLastWrite ==
  [][(cl.pc = "extract" /\ cl.read = 0 /\ ~cl.eof /\ cl' # cl /\ cl'.pc = "extract"
      /\ (cl'.read > 0 \/ cl'.eof))
       => cl.onDisk = clIn.chunks]_vars

\* C11 (as claimed): every url the README lists as supported passes isGitUrl, and
\* a cloneRepository call on its gitInfo never fails with 'Unsupported repository
\* URL format'.
C11_SupportedUrlsIngested ==
  \A u \in SupportedUrls :
    /\ isGitUrl(u)
    /\ clIn.gitInfo = convertUrlToGitUrl(u) => cl.error # Unsupported

(***************************************************************************)
(* Ignore filtering (the `ignore` package as the source uses it)           *)
(*                                                                         *)
(* A file name is a sequence of tokens ("yarn.lock" is <<"yarn", ".lock">>)*)
(* and a path a sequence of names.  A pattern is [neg, segs]: neg is the   *)
(* leading '!', segs the pattern split at '/', each segment <<"**">> or a  *)
(* glob, a sequence of tokens in which "*" stands for any run of tokens.   *)
(***************************************************************************)
Pat(segs) == [neg |-> FALSE, segs |-> segs]
Neg(segs) == [neg |-> TRUE, segs |-> segs]
AnyDepth(name) == Pat(<<<<"**">>, name>>)

DEFAULT_IGNORE_PATTERNS ==
  << AnyDepth(<<"*", ".lock">>),
     AnyDepth(<<"package-lock", ".json">>),
     AnyDepth(<<"yarn", ".lock">>),
     AnyDepth(<<"pnpm-lock", ".yaml">>),
     AnyDepth(<<"Gemfile", ".lock">>),
     AnyDepth(<<"Cargo", ".lock">>),
     AnyDepth(<<"composer", ".lock">>),
     AnyDepth(<<"poetry", ".lock">>),
     AnyDepth(<<"go", ".sum">>),
     AnyDepth(<<"yarn", ".lock">>),
     AnyDepth(<<"bun", ".lockb">>),
     AnyDepth(<<"pnpm-lock", ".yaml">>),
     AnyDepth(<<"npm-debug", ".log", "*">>),
     AnyDepth(<<"yarn-debug", ".log", "*">>),
     AnyDepth(<<"yarn-error", ".log", "*">>) >>

\* a glob against one name: "*" matches any run of tokens, also an empty one
RECURSIVE GlobMatch(_, _)
GlobMatch(g, name) ==
  IF g = <<>> THEN name = <<>>
  ELSE IF Head(g) = "*"
       THEN GlobMatch(Tail(g), name) \/ (name # <<>> /\ GlobMatch(g, Tail(name)))
       ELSE name # <<>> /\ Head(name) = Head(g) /\ GlobMatch(Tail(g), Tail(name))

\* a pattern with a '/' in it against a whole path from the root: a leading or
\* inner "**" stands for any number of directories, a trailing one for everything
\* inside
RECURSIVE PathMatch(_, _)
PathMatch(segs, path) ==
  IF segs = <<>> THEN path = <<>>
  ELSE IF Head(segs) = <<"**">>
       THEN IF Tail(segs) = <<>>
            THEN path # <<>>
            ELSE PathMatch(Tail(segs), path) \/ (path # <<>> /\ PathMatch(segs, Tail(path)))
       ELSE path # <<>> /\ GlobMatch(Head(segs), Head(path))
                        /\ PathMatch(Tail(segs), Tail(path))

\* rule.regex.test(path): a pattern without '/' matches the last name at any depth
RuleMatches(rule, path) ==
  IF Len(rule.segs) = 1
  THEN GlobMatch(rule.segs[1], path[Len(path)])
  ELSE PathMatch(rule.segs, path)

(***************************************************************************)
(* The workspace the filters are run on                                    *)
(***************************************************************************)
\* the files of the extracted repository: path and what reading it gives
Files ==
  { [path |-> <<<<"main", ".go">>>>,                      kind |-> "text"],
    [path |-> <<<<"notes", ".md">>>>,                     kind |-> "text"],
    [path |-> <<<<"logo", ".png">>>>,                     kind |-> "binary"],
    [path |-> <<<<"yarn", ".lock">>>>,                    kind |-> "text"],
    [path |-> <<<<"docs">>, <<"guide", ".md">>>>,         kind |-> "text"],
    [path |-> <<<<"docs">>, <<"npm-debug", ".log", ".1">>>>, kind |-> "text"],
    [path |-> <<<<".git">>, <<"config">>>>,               kind |-> "text"],
    [path |-> <<<<"vendor">>, <<".git">>>>,               kind |-> "text"] }

FilePaths == {f.path : f \in Files}

\* the directories: the proper prefixes of the files' paths
DirPaths == UNION {{SubSeq(p, 1, k) : k \in 1..(Len(p) - 1)} : p \in FilePaths}

\* fs.readdirSync(dir): the entries directly inside dir
Children(dir) ==
  {p \in FilePaths \cup DirPaths : Len(p) = Len(dir) + 1 /\ SubSeq(p, 1, Len(dir)) = dir}

\* the patterns a .gitignore line or a caller pattern is drawn from
PatternPool ==
  { Pat(<<<<"*", ".md">>>>),             \* *.md
    Pat(<<<<"docs">>>>),                 \* docs
    Pat(<<<<"**">>, <<"*", ".go">>>>),   \* **/*.go
    Neg(<<<<"yarn", ".lock">>>>),        \* !yarn.lock
    Neg(<<<<"guide", ".md">>>>) }        \* !guide.md

\* every pattern a filter can hold, and every path it can be asked about
AllRules ==
  {DEFAULT_IGNORE_PATTERNS[i] : i \in 1..Len(DEFAULT_IGNORE_PATTERNS)}
    \cup PatternPool \cup {Pat(<<<<".git">>, <<"**">>>>), Pat(<<<<".git">>>>)}
AllPaths == FilePaths \cup DirPaths

\* RuleMatches, evaluated once for each pattern and path
MatchTable == [q \in AllRules |-> {p \in AllPaths : RuleMatches(q, p)}]

\* the rules in order: each rule that matches sets ignored to !negative, so the
\* last rule that matches decides
TestRules(rules, path) ==
  LET hit == {i \in 1..Len(rules) : path \in MatchTable[rules[i]]}
  IN  hit # {} /\ ~rules[CHOOSE i \in hit : \A j \in hit : j <= i].neg

\* ignoreFilter.ignores(path): ignored when a parent directory is, else by the rules
Ignores(rules, path) ==
  \E k \in 1..Len(path) : TestRules(rules, SubSeq(path, 1, k))

\* an override hierarchy: the caller's patterns, when there are any, replace the
\* .gitignore's
ContentRules_Override(gi, add) ==
  <<Pat(<<<<".git">>, <<"**">>>>)>> \o DEFAULT_IGNORE_PATTERNS \o (IF add # <<>> THEN add ELSE gi)

\* extractRepositoryContent: ignore().add(['.git/**', ...DEFAULT_IGNORE_PATTERNS]),
\* then the .gitignore, then the additional patterns
ContentRules(gi, add) ==
  <<Pat(<<<<".git">>, <<"**">>>>)>> \o DEFAULT_IGNORE_PATTERNS \o gi \o add

\* generateTreeStructure: ignore().add(['.git']), then the .gitignore, then the
\* additional patterns
TreeRules(gi, add) ==
  <<Pat(<<<<".git">>>>)>> \o gi \o add

\* the entries listDirectoryTree(dir) pushes: the visible items of dir and, under
\* each visible directory, its own listing
RECURSIVE listDirectoryTree(_, _)
listDirectoryTree(dir, rules) ==
  LET visibleItems == {p \in Children(dir) : ~Ignores(rules, p)}
  IN  visibleItems \cup
      UNION {listDirectoryTree(d, rules) : d \in visibleItems \cap DirPaths}

generateTreeStructure(gi, add) == listDirectoryTree(<<>>, TreeRules(gi, add))

\* isBinaryFile: a null byte among the first 512 bytes; a failed probe is "not binary"
isBinaryFile(f) == f.kind = "binary"

\* the loop over the globbed files: a file is skipped when the filter ignores it
\* or isBinaryFile says binary, and its section is pushed unless readFileSync
\* throws, which the catch inside the loop logs
ContentParts(files, rules) ==
  {f.path : f \in {g \in files : /\ ~Ignores(rules, g.path)
                                 /\ ~isBinaryFile(g)
                                 /\ g.kind # "unreadable"}}

\* the files whose section extractRepositoryContent appends to contentParts
ContentFiles(gi, add) == ContentParts(Files, ContentRules(gi, add))

\* s with x put in at position i
InsertAt(s, i, x) == SubSeq(s, 1, i - 1) \o <<x>> \o SubSeq(s, i, Len(s))

\* the paths the content filter excludes / the tree filter excludes
ExcludedFromContent == {p \in FilePaths : Ignores(ContentRules(gitignore, additional), p)}
ExcludedFromTree == {p \in FilePaths : Ignores(TreeRules(gitignore, additional), p)}

InitIgnore ==
  /\ gitignore = <<>> /\ additional = <<>>
  /\ treeOut = NotRun /\ contentOut = NotRun
  /\ urlIn = [none |-> TRUE] /\ urlOut = NoResult
  /\ ServerIdle
  /\ CloneIdle
  /\ ExtractIdle

\* the repository's .gitignore gains the line q (read at line 223-226)
AddGitignoreLine(q) ==
  /\ Len(gitignore) < MaxRules
  /\ \E i \in 1..(Len(gitignore) + 1) : gitignore' = InsertAt(gitignore, i, q)
  /\ treeOut' = NotRun /\ contentOut' = NotRun
  /\ UNCHANGED <<additional, urlVars, serverVars, cloneVars, extractVars>>

\* the request body's ignorePatterns gains the pattern q
AddCallerPattern(q) ==
  /\ Len(additional) < MaxRules
  /\ \E i \in 1..(Len(additional) + 1) : additional' = InsertAt(additional, i, q)
  /\ treeOut' = NotRun /\ contentOut' = NotRun
  /\ UNCHANGED <<gitignore, urlVars, serverVars, cloneVars, extractVars>>

\* extractRepositoryContent(tempDir, ignorePatterns) on an existing workspace
ExtractContent ==
  /\ contentOut = NotRun
  /\ contentOut' = [ran |-> TRUE, paths |-> ContentFiles(gitignore, additional)]
  /\ treeOut' = [ran |-> TRUE, paths |-> generateTreeStructure(gitignore, additional)]
  /\ UNCHANGED <<gitignore, additional, urlVars, serverVars, cloneVars, extractVars>>

NextIgnore ==
  \/ \E q \in PatternPool : AddGitignoreLine(q)
  \/ \E q \in PatternPool : AddCallerPattern(q)
  \/ ExtractContent

SpecIgnore == InitIgnore /\ [][NextIgnore]_vars


\* C8 (as claimed): within one request the tree and the content apply the same
\* ignore predicate: every text file of the workspace is listed in the tree exactly
\* when its section is in the content.
C8_SameIgnorePredicate ==
  contentOut.ran =>
    \A f \in Files : f.kind = "text" =>
      (f.path \in treeOut.paths <=> f.path \in contentOut.paths)

\* how many of the rules are negations
Negations(rules) == Cardinality({i \in 1..Len(rules) : rules[i].neg})

FaultCandidates ==
  { <<<<"main", ".go">>>>, <<<<"logo", ".png">>>>, <<<<"docs">>, <<"guide", ".md">>>> }

\* what <repoPath>/.gitignore is: missing, a file, or a directory
GitignoreKinds == {"absent", "file", "directory"}

\* the rule lists a .gitignore file or the request's ignorePatterns hold
RuleLists == {<<>>} \cup {<<q>> : q \in PatternPool}

\* the workspace's files, those of the set unreadable with kind "unreadable"
WorkspaceFiles(unreadable) ==
  {[f EXCEPT !.kind = IF f.path \in unreadable THEN "unreadable" ELSE @] : f \in Files}

InitExtract ==
  /\ \E root \in BOOLEAN, k \in GitignoreKinds, u \in SUBSET FaultCandidates :
       ex = [pc |-> "start", root |-> root, gitignoreFile |-> k, unreadable |-> u,
             error |-> NoError]
  /\ gitignore \in (IF ex.gitignoreFile = "file" THEN RuleLists ELSE {<<>>})
  /\ additional \in RuleLists
  /\ treeOut = NotRun /\ contentOut = NotRun
  /\ urlIn = [none |-> TRUE] /\ urlOut = NoResult
  /\ ServerIdle
  /\ CloneIdle

\* if (!fs.existsSync(repoPath)) throw
CheckRoot ==
  /\ ex.pc = "start"
  /\ ex' = IF ex.root THEN [ex EXCEPT !.pc = "rules"]
           ELSE [ex EXCEPT !.pc = "rejected", !.error = "Repository path does not exist"]
  /\ UNCHANGED <<urlVars, ignoreVars, serverVars, cloneVars>>

\* the filter: the defaults, then fs.readFileSync(gitignorePath) when
\* fs.existsSync(gitignorePath), then the additional patterns. existsSync is true
\* of a directory too, readFileSync of a directory throws EISDIR, and nothing
\* catches it here.
LoadRules ==
  /\ ex.pc = "rules"
  /\ ex' = IF ex.gitignoreFile = "directory"
           THEN [ex EXCEPT !.pc = "rejected", !.error = "EISDIR"]
           ELSE [ex EXCEPT !.pc = "scan"]
  /\ UNCHANGED <<urlVars, ignoreVars, serverVars, cloneVars>>

\* glob('**/*') and the loop over the files
Scan ==
  /\ ex.pc = "scan"
  /\ contentOut' = [ran |-> TRUE,
                    paths |-> ContentParts(WorkspaceFiles(ex.unreadable),
                                           ContentRules(gitignore, additional))]
  /\ ex' = [ex EXCEPT !.pc = "tree"]
  /\ UNCHANGED <<gitignore, additional, treeOut, urlVars, serverVars, cloneVars>>

\* generateTreeStructure(repoPath, additionalIgnorePatterns), then the return
Tree ==
  /\ ex.pc = "tree"
  /\ treeOut' = [ran |-> TRUE, paths |-> generateTreeStructure(gitignore, additional)]
  /\ ex' = [ex EXCEPT !.pc = "resolved"]
  /\ UNCHANGED <<gitignore, additional, contentOut, urlVars, serverVars, cloneVars>>

NextExtract ==
  \/ CheckRoot
  \/ LoadRules
  \/ Scan
  \/ Tree

SpecExtract == InitExtract /\ [][NextExtract]_vars

\* C12 (as claimed): extractRepositoryContent fails as a whole only when the
\* workspace root does not exist; on an existing root it resolves with the section
\* of every file that is not ignored, not binary and readable, and with no section
\* of a file that could not be read.
C12_FailsOnlyWithoutRoot ==
  /\ ex.pc = "rejected" => ~ex.root
  /\ ex.pc = "resolved" =>
       contentOut.paths =
         {f.path : f \in {g \in Files :
            /\ ~Ignores(ContentRules(gitignore, additional), g.path)
            /\ g.kind = "text"
            /\ g.path \notin ex.unreadable}}

InitUrl ==
  /\ urlIn \in UrlParts
  /\ urlOut = NoResult
  /\ gitignore = <<>> /\ additional = <<>>
  /\ treeOut = NotRun /\ contentOut = NotRun
  /\ ServerIdle
  /\ CloneIdle
  /\ ExtractIdle

\* server.ts: const gitInfo = convertUrlToGitUrl(url), reached when isGitUrl(url)
Normalize ==
  /\ urlOut = NoResult
  /\ isGitUrl(Render(urlIn))
  /\ urlOut' = convertUrlToGitUrl(Render(urlIn))
  /\ UNCHANGED <<urlIn, ignoreVars, serverVars, cloneVars, extractVars>>

\* server.ts: the 400 answer when isGitUrl(url) is false
Reject ==
  /\ urlOut = NoResult
  /\ ~isGitUrl(Render(urlIn))
  /\ urlOut' = [rejected |-> TRUE]
  /\ UNCHANGED <<urlIn, ignoreVars, serverVars, cloneVars, extractVars>>

NextUrl == Normalize \/ Reject

SpecUrl == InitUrl /\ [][NextUrl]_vars

\* C10 (as claimed): for every recognized browse url convertUrlToGitUrl returns
\* https://<host>/<owner>/<repo>.git with exactly one .git suffix, whatever .git
\* suffixes the repository segment carried, the branch segment as branch when it
\* is present, and no branch field when it is absent.
C10_ExactlyOneGitSuffix ==
  ("url" \in DOMAIN urlOut /\ IsBrowse(urlIn)) =>
    /\ urlOut.url = <<"https://", urlIn.host, "/", urlIn.owner, "/", urlIn.repo, ".git">>
    /\ urlOut.hasBranch = (urlIn.tail # <<>>)
    /\ urlOut.hasBranch => urlOut.branch = BranchOf(urlIn)

\* C10 (amended): for every recognized browse url convertUrlToGitUrl strips one
\* trailing .git from the repository segment and appends .git: the canonical url
\* is https://<host>/<owner>/<repo>.git with exactly one .git suffix when the
\* segment ends in at most one .git, and keeps the segment's other .git suffixes
\* otherwise; the branch segment is returned as branch when it is present, and no
\* branch field is returned when it is absent.
C10_StripsOneGitSuffix ==
  ("url" \in DOMAIN urlOut /\ IsBrowse(urlIn)) =>
    /\ urlOut.url = <<"https://", urlIn.host, "/", urlIn.owner, "/", urlIn.repo>>
                      \o GitSuffix(IF urlIn.gits = 0 THEN 1 ELSE urlIn.gits)
    /\ urlOut.hasBranch = (urlIn.tail # <<>>)
    /\ urlOut.hasBranch => urlOut.branch = BranchOf(urlIn)

\* a gitlab browse url with a .git-suffixed repository segment and a branch has
\* been normalised
C10_Witness ==
  /\ "url" \in DOMAIN urlOut
  /\ IsBrowse(urlIn)
  /\ urlIn.host = "gitlab.com" /\ urlIn.gits = 1 /\ urlIn.tail # <<>>
  /\ urlOut.hasBranch

====
